---- MODULE Spec2Model ----
(***************************************************************************)
(* Model of the array address calculators of                               *)
(* src/arrays/array_address_rust/array_add.rs.                             *)
(*                                                                         *)
(* Every routine is a pure function returning a raw pointer                *)
(* base.add(offset).  The routines are modelled as operators that follow   *)
(* the loops of the source; an action per routine applies it to the        *)
(* current inputs and records the value of the local `offset` and the      *)
(* pointer returned.  Rust slices are 0-based, TLA+ sequences 1-based:     *)
(* At(s, i) reads s[i] of the source.                                      *)
(***************************************************************************)
EXTENDS Integers, Sequences, FiniteSets, TLC

VARIABLES
    indices,      \* the index vector handed to the routine (&[usize])
    dimensions,   \* the extents of the array (&[usize])
    base,         \* the base pointer, as an address
    called,       \* the routine applied last, "none" before the first call
    result,       \* what that call produced
    arr,          \* the slice searched (&[i32])
    target,       \* the value searched for
    build,        \* "debug": overflow checks on; "release": wrapping arithmetic
    routine,      \* the search routine called, "none" before the call
    pc,           \* "idle", "loop" (inside binary_search's while), "done"
    low,          \* binary_search: low
    high,         \* binary_search: high
    mid,          \* binary_search: the mid computed last
    comparisons,  \* binary_search: evaluations of arr[mid].cmp(&target) so far
    overflowed,   \* binary_search: some usize operation left the usize range
    found         \* what the search produced

addrVars == <<indices, dimensions, base, called, result>>
searchVars == <<arr, target, build, routine, pc, low, high, mid, comparisons,
                overflowed, found>>
vars == <<addrVars, searchVars>>

\* Bounds of the model.
MaxRank == 3
MaxExtent == 2

\* size_of::<f32>(): the element type main instantiates every routine with.
ElemSize == 4

\* The base address of the backing buffer (a.as_ptr(), d.as_ptr(), ...).
BaseAddr == 4096

\* usize values the inputs are drawn from.
Values == 0 .. MaxExtent

\* All slices of at most MaxRank usize values.
Slices == UNION {[1 .. n -> Values] : n \in 0 .. MaxRank}

\* s[i] of a Rust slice.
At(s, i) == s[i + 1]

\* dimensions.iter().product(): the element count of the backing buffer.
RECURSIVE total_elements(_)
total_elements(dims) ==
    IF dims = <<>> THEN 1 ELSE Head(dims) * total_elements(Tail(dims))

\* A slice access out of range panics; the panic propagates out of the routine.
Panic == -1

\* The outcomes of a call.
NoResult == [kind |-> "none"]
Panicked == [kind |-> "panic"]
Returned(offset, addr) == [kind |-> "returned", offset |-> offset, addr |-> addr]

\* Mutant: the count is added as a number of bytes, not of elements.
ptr_add_bytes(b, count, alloc_len) == {b + count}

\* base.add(count) for *const T. Inside the allocation (or one past its end)
\* it is base + count * size_of::<T>(). Beyond it the call is undefined
\* behaviour: the build may produce the wrapped sum or any other pointer,
\* the latter represented by the null address.
ptr_add(b, count, alloc_len) ==
    IF count <= alloc_len
    THEN {b + count * ElemSize}
    ELSE {b + count * ElemSize, 0}


(***************************************************************************)
(* The offset computations.                                                *)
(***************************************************************************)

\* calculate_1d_address: base.add(i), the offset is the index itself.
offset_1d(i) == i

\* calculate_2d_row_major: let offset = i * cols + j.
offset_2d_row_major(i, j, cols) == i * cols + j

\* calculate_2d_col_major: let offset = j * rows + i.
offset_2d_col_major(i, j, rows) == j * rows + i

\* Mutant: the middle term is scaled by cols instead of depth.
offset_3d_row_major_cols(i, j, k, cols, depth) == (i * cols * depth) + (j * cols) + k

\* calculate_3d_row_major: let offset = (i * cols * depth) + (j * depth) + k.
offset_3d_row_major(i, j, k, cols, depth) == (i * cols * depth) + (j * depth) + k

\* calculate_3d_col_major: let offset = (k * rows * cols) + (j * rows) + i.
offset_3d_col_major(i, j, k, rows, cols) == (k * rows * cols) + (j * rows) + i

\* calculate_nd_row_major, inner loop: for next_dim in dim + 1..n
\*     { multiplier *= dimensions[next_dim]; }
RECURSIVE nd_row_major_multiplier_loop(_, _, _, _)
nd_row_major_multiplier_loop(dims, next_dim, n, multiplier) ==
    IF next_dim >= n THEN multiplier
    ELSE IF next_dim >= Len(dims) THEN Panic
    ELSE nd_row_major_multiplier_loop(dims, next_dim + 1, n,
                                      multiplier * At(dims, next_dim))

\* Mutant: the inner loop starts at dim instead of dim + 1.
nd_row_major_multiplier_from_dim(dims, dim, n) ==
    nd_row_major_multiplier_loop(dims, dim, n, 1)

\* calculate_nd_row_major: let mut multiplier = 1; followed by the inner loop.
nd_row_major_multiplier(dims, dim, n) ==
    nd_row_major_multiplier_loop(dims, dim + 1, n, 1)

\* calculate_nd_row_major, outer loop: for dim in 0..n
\*     { ...; offset += indices[dim] * multiplier; }
RECURSIVE nd_row_major_loop(_, _, _, _, _)
nd_row_major_loop(idx, dims, dim, n, offset) ==
    IF dim >= n THEN offset
    ELSE LET multiplier == nd_row_major_multiplier(dims, dim, n)
         IN  IF multiplier = Panic THEN Panic
             ELSE nd_row_major_loop(idx, dims, dim + 1, n,
                                    offset + At(idx, dim) * multiplier)

\* Mutant: the outer loop is written 0..=n - 1, and n - 1 underflows for n = 0.
nd_row_major_offset_to_last(idx, dims) ==
    IF Len(idx) = 0 THEN Panic
    ELSE nd_row_major_loop(idx, dims, 0, Len(idx), 0)

\* calculate_nd_row_major: the value of offset when the pointer is formed.
nd_row_major_offset(idx, dims) ==
    nd_row_major_loop(idx, dims, 0, Len(idx), 0)

\* calculate_nd_col_major, inner loop: for prev_dim in (dim + 1..n).rev()
\*     { multiplier *= dimensions[prev_dim]; }
RECURSIVE nd_col_major_multiplier_loop(_, _, _, _)
nd_col_major_multiplier_loop(dims, prev_dim, dim, multiplier) ==
    IF prev_dim <= dim THEN multiplier
    ELSE IF prev_dim >= Len(dims) THEN Panic
    ELSE nd_col_major_multiplier_loop(dims, prev_dim - 1, dim,
                                      multiplier * At(dims, prev_dim))

\* Mutant: the weight of an axis is the product of the extents before it
\* (prev_dim in 0..dim), the column-major weight.
nd_col_major_multiplier_before(dims, dim, n) ==
    nd_row_major_multiplier_loop(dims, 0, dim, 1)

\* Mutant: the inner loop runs down to dim instead of dim + 1.
nd_col_major_multiplier_to_dim(dims, dim, n) ==
    nd_col_major_multiplier_loop(dims, n - 1, dim - 1, 1)

\* calculate_nd_col_major: let mut multiplier = 1; followed by the inner loop.
nd_col_major_multiplier(dims, dim, n) ==
    nd_col_major_multiplier_loop(dims, n - 1, dim, 1)

\* calculate_nd_col_major, outer loop: for dim in (0..n).rev()
\*     { ...; offset += indices[dim] * multiplier; }
RECURSIVE nd_col_major_loop(_, _, _, _, _)
nd_col_major_loop(idx, dims, dim, n, offset) ==
    IF dim < 0 THEN offset
    ELSE LET multiplier == nd_col_major_multiplier(dims, dim, n)
         IN  IF multiplier = Panic THEN Panic
             ELSE nd_col_major_loop(idx, dims, dim - 1, n,
                                    offset + At(idx, dim) * multiplier)

\* Mutant: the outer loop starts one axis early, (0..n - 1).rev().
nd_col_major_offset_skip_last(idx, dims) ==
    nd_col_major_loop(idx, dims, Len(idx) - 2, Len(idx), 0)

\* calculate_nd_col_major: the value of offset when the pointer is formed.
nd_col_major_offset(idx, dims) ==
    nd_col_major_loop(idx, dims, Len(idx) - 1, Len(idx), 0)

\* main, "Calculate actual index in flat array using row-major":
\* for d in (0..dimensions.len()).rev()
\*     { actual_index += test_indices[d] * multiplier; multiplier *= dimensions[d]; }
RECURSIVE actual_index_loop(_, _, _, _, _)
actual_index_loop(test_indices, dims, d, actual_index, multiplier) ==
    IF d < 0 THEN actual_index
    ELSE IF d >= Len(test_indices) THEN Panic
    ELSE actual_index_loop(test_indices, dims, d - 1,
                           actual_index + At(test_indices, d) * multiplier,
                           multiplier * At(dims, d))

actual_index(test_indices, dims) ==
    actual_index_loop(test_indices, dims, Len(dims) - 1, 0, 1)

(***************************************************************************)
(* The calls. Each routine ends with unsafe { base.add(offset) }; the      *)
(* buffer behind base holds total_elements(dimensions) elements, as the    *)
(* arrays of main do.                                                      *)
(***************************************************************************)

\* The outcome of a routine whose local offset is `offset`.
Outcomes(offset) ==
    IF offset = Panic
    THEN {Panicked}
    ELSE {Returned(offset, addr) :
            addr \in ptr_add(base, offset, total_elements(dimensions))}

\* No search routine is running.
SearchIdle ==
    /\ routine = "none"
    /\ pc = "idle"
    /\ low = 0
    /\ high = 0
    /\ mid = 0
    /\ comparisons = 0
    /\ overflowed = FALSE
    /\ found = NoResult

Init ==
    /\ indices \in Slices
    /\ dimensions \in Slices
    /\ base = BaseAddr
    /\ called = "none"
    /\ result = NoResult
    /\ arr = <<>>
    /\ target = 0
    /\ build = "debug"
    /\ SearchIdle

\* calculate_1d_address(a.as_ptr(), i)
calculate_1d_address ==
    /\ Len(indices) = 1
    /\ Len(dimensions) = 1
    /\ result' \in Outcomes(offset_1d(At(indices, 0)))
    /\ called' = "calculate_1d_address"
    /\ UNCHANGED <<indices, dimensions, base, searchVars>>

\* calculate_2d_row_major(b.as_ptr(), test_i, test_j, COLS)
calculate_2d_row_major ==
    /\ Len(indices) = 2
    /\ Len(dimensions) = 2
    /\ result' \in Outcomes(offset_2d_row_major(At(indices, 0), At(indices, 1),
                                                At(dimensions, 1)))
    /\ called' = "calculate_2d_row_major"
    /\ UNCHANGED <<indices, dimensions, base, searchVars>>

\* calculate_2d_col_major(b.as_ptr(), test_i, test_j, ROWS)
calculate_2d_col_major ==
    /\ Len(indices) = 2
    /\ Len(dimensions) = 2
    /\ result' \in Outcomes(offset_2d_col_major(At(indices, 0), At(indices, 1),
                                                At(dimensions, 0)))
    /\ called' = "calculate_2d_col_major"
    /\ UNCHANGED <<indices, dimensions, base, searchVars>>

\* calculate_3d_row_major(c.as_ptr(), test_i3, test_j3, test_k3, DIM2, DIM3)
calculate_3d_row_major ==
    /\ Len(indices) = 3
    /\ Len(dimensions) = 3
    /\ result' \in Outcomes(offset_3d_row_major(At(indices, 0), At(indices, 1),
                                                At(indices, 2),
                                                At(dimensions, 1), At(dimensions, 2)))
    /\ called' = "calculate_3d_row_major"
    /\ UNCHANGED <<indices, dimensions, base, searchVars>>

\* calculate_3d_col_major(c.as_ptr(), test_i3, test_j3, test_k3, DIM1, DIM2)
calculate_3d_col_major ==
    /\ Len(indices) = 3
    /\ Len(dimensions) = 3
    /\ result' \in Outcomes(offset_3d_col_major(At(indices, 0), At(indices, 1),
                                                At(indices, 2),
                                                At(dimensions, 0), At(dimensions, 1)))
    /\ called' = "calculate_3d_col_major"
    /\ UNCHANGED <<indices, dimensions, base, searchVars>>

\* calculate_nd_row_major(d.as_ptr(), &test_indices, &dimensions)
calculate_nd_row_major ==
    /\ result' \in Outcomes(nd_row_major_offset(indices, dimensions))
    /\ called' = "calculate_nd_row_major"
    /\ UNCHANGED <<indices, dimensions, base, searchVars>>

\* calculate_nd_col_major(d.as_ptr(), &test_indices, &dimensions)
calculate_nd_col_major ==
    /\ result' \in Outcomes(nd_col_major_offset(indices, dimensions))
    /\ called' = "calculate_nd_col_major"
    /\ UNCHANGED <<indices, dimensions, base, searchVars>>

Next ==
    \/ calculate_1d_address
    \/ calculate_2d_row_major
    \/ calculate_2d_col_major
    \/ calculate_3d_row_major
    \/ calculate_3d_col_major
    \/ calculate_nd_row_major
    \/ calculate_nd_col_major

Spec == Init /\ [][Next]_vars

(***************************************************************************)
(* The search routines of src/arrays/binary_s_rust/bs.rs and               *)
(* src/arrays/linear_s_rust/ls.rs. binary_search is followed one loop      *)
(* iteration at a time; its indices are usize, so mid - 1 at mid = 0       *)
(* panics in a build with overflow checks and wraps to usize::MAX in one   *)
(* without. linear_search is applied as a whole.                           *)
(***************************************************************************)

\* Bounds of the search model.
MaxLen == 4
MaxVal == 3

\* usize::MAX, taken for a 16-bit target; a wider usize gives the same steps
\* with a larger value.
UsizeMax == 65535

\* The i32 values of the elements and of the target.
Elems == 0 .. MaxVal

\* All slices of at most MaxLen elements, sorted or not.
Arrays == UNION {[1 .. n -> Elems] : n \in 0 .. MaxLen}

Builds == {"debug", "release"}

\* The outcomes of a search.
SomeIndex(i) == [kind |-> "Some", index |-> i]
NoneFound == [kind |-> "None"]
PanicWith(why) == [kind |-> "panic", why |-> why]

\* a - b on usize: with overflow checks a panic, without them the wrapped value.
usize_sub(a, b, bld) ==
    IF a >= b THEN a - b
    ELSE IF bld = "debug" THEN Panic
    ELSE (a - b) % (UsizeMax + 1)

\* a + b on usize.
usize_add(a, b, bld) ==
    IF a + b <= UsizeMax THEN a + b
    ELSE IF bld = "debug" THEN Panic
    ELSE (a + b) % (UsizeMax + 1)

\* Mutant: the operands of the comparison are swapped, target.cmp(&arr[mid]).
cmp_swapped(a, b) ==
    IF a = b THEN "Equal" ELSE IF a < b THEN "Greater" ELSE "Less"

\* arr[mid].cmp(&target)
cmp(a, b) ==
    IF a = b THEN "Equal" ELSE IF a < b THEN "Less" ELSE "Greater"

\* Mutant: the probe is the low end of the range, not its middle.
bs_mid_low(lo, hi) == lo

\* let mid = low + (high - low) / 2; evaluated only when low <= high.
bs_mid(lo, hi) == lo + (hi - lo) \div 2

\* linear_search: for (i, &val) in arr.iter().enumerate()
\*     { if val == target { return Some(i); } } None
RECURSIVE linear_search_loop(_, _, _)
linear_search_loop(a, t, i) ==
    IF i >= Len(a) THEN NoneFound
    ELSE IF At(a, i) = t THEN SomeIndex(i)
    ELSE linear_search_loop(a, t, i + 1)

\* Mutant: the scan starts at the second element.
linear_search_from_second(a, t) == linear_search_loop(a, t, 1)

\* linear_search(arr, target)
linear_search_result(a, t) == linear_search_loop(a, t, 0)

SearchInit ==
    /\ indices = <<>>
    /\ dimensions = <<>>
    /\ base = BaseAddr
    /\ called = "none"
    /\ result = NoResult
    /\ arr \in Arrays
    /\ target \in Elems
    /\ build \in Builds
    /\ SearchIdle

\* linear_search(&arr, target)
linear_search ==
    /\ pc = "idle"
    /\ routine' = "linear_search"
    /\ found' = linear_search_result(arr, target)
    /\ pc' = "done"
    /\ UNCHANGED <<arr, target, build, low, high, mid, comparisons, overflowed,
                   addrVars>>

\* binary_search, up to the loop: let mut low = 0;
\* let mut high = arr.len().checked_sub(1)?;
binary_search_enter ==
    /\ pc = "idle"
    /\ routine' = "binary_search"
    /\ low' = 0
    /\ IF Len(arr) = 0
       THEN /\ found' = NoneFound
            /\ pc' = "done"
            /\ high' = high
       ELSE /\ high' = Len(arr) - 1
            /\ pc' = "loop"
            /\ found' = found
    /\ UNCHANGED <<arr, target, build, mid, comparisons, overflowed, addrVars>>

\* binary_search: the loop test fails, the function returns None.
binary_search_exit ==
    /\ pc = "loop"
    /\ ~(low <= high)
    /\ found' = NoneFound
    /\ pc' = "done"
    /\ UNCHANGED <<arr, target, build, routine, low, high, mid, comparisons,
                   overflowed, addrVars>>

\* binary_search: one iteration of while low <= high { ... }.
binary_search_iterate ==
    /\ pc = "loop"
    /\ low <= high
    /\ LET m == bs_mid(low, high)
       IN  /\ mid' = m
           /\ IF m >= Len(arr)
              THEN \* arr[mid]: index out of bounds
                   /\ found' = PanicWith("index out of bounds")
                   /\ pc' = "done"
                   /\ UNCHANGED <<low, high, comparisons, overflowed>>
              ELSE /\ comparisons' = comparisons + 1
                   /\ LET ord == cmp(At(arr, m), target)
                          lo == usize_add(m, 1, build)
                          hi == usize_sub(m, 1, build)
                      IN  CASE ord = "Equal" ->
                                 /\ found' = SomeIndex(m)
                                 /\ pc' = "done"
                                 /\ UNCHANGED <<low, high, overflowed>>
                            [] ord = "Less" /\ lo = Panic ->
                                 /\ found' = PanicWith("attempt to add with overflow")
                                 /\ pc' = "done"
                                 /\ overflowed' = TRUE
                                 /\ UNCHANGED <<low, high>>
                            [] ord = "Less" /\ lo # Panic ->
                                 /\ low' = lo
                                 /\ overflowed' = (overflowed \/ m + 1 > UsizeMax)
                                 /\ UNCHANGED <<high, found, pc>>
                            [] ord = "Greater" /\ hi = Panic ->
                                 /\ found' = PanicWith("attempt to subtract with overflow")
                                 /\ pc' = "done"
                                 /\ overflowed' = TRUE
                                 /\ UNCHANGED <<low, high>>
                            [] ord = "Greater" /\ hi # Panic ->
                                 /\ high' = hi
                                 /\ overflowed' = (overflowed \/ m < 1)
                                 /\ UNCHANGED <<low, found, pc>>
    /\ UNCHANGED <<arr, target, build, routine, addrVars>>

SearchNext ==
    \/ linear_search
    \/ binary_search_enter
    \/ binary_search_iterate
    \/ binary_search_exit

SearchSpec == SearchInit /\ [][SearchNext]_vars

\* The same with the call running to its end: a call that has started is not
\* suspended for ever.
SearchFairSpec ==
    /\ SearchSpec
    /\ WF_vars(binary_search_iterate)
    /\ WF_vars(binary_search_exit)


(***************************************************************************)
(* Definitions the properties are stated with.                             *)
(***************************************************************************)

NdRoutines == {"calculate_nd_row_major", "calculate_nd_col_major"}

\* Equal lengths, every extent positive, every index below its extent.
ValidInput(idx, shape) ==
    /\ Len(idx) = Len(shape)
    /\ \A d \in 1 .. Len(shape) : shape[d] > 0 /\ idx[d] < shape[d]

\* The valid index vectors of a shape.
ValidIndices(shape) ==
    {idx \in [1 .. Len(shape) -> Values] : ValidInput(idx, shape)}

\* The product of shape[d] over the axes d of a set.
RECURSIVE ProductOver(_, _)
ProductOver(shape, axes) ==
    IF axes = {} THEN 1
    ELSE LET d == CHOOSE x \in axes : TRUE
         IN  shape[d] * ProductOver(shape, axes \ {d})

\* The sum of term[d] over the axes d of a set.
RECURSIVE SumOver(_, _)
SumOver(term, axes) ==
    IF axes = {} THEN 0
    ELSE LET d == CHOOSE x \in axes : TRUE
         IN  term[d] + SumOver(term, axes \ {d})

\* Sum over d of idx[d] * product of shape[d'] for d' > d.
RowMajorSum(idx, shape) ==
    LET D == Len(shape)
    IN  SumOver([d \in 1 .. D |-> idx[d] * ProductOver(shape, (d + 1) .. D)], 1 .. D)

\* Sum over d of idx[d] * product of shape[d'] for d' < d.
ColMajorSum(idx, shape) ==
    LET D == Len(shape)
    IN  SumOver([d \in 1 .. D |-> idx[d] * ProductOver(shape, 1 .. (d - 1))], 1 .. D)

\* multiplier starts at 1; for d from 0 to D-1:
\* offset += indices[d] * multiplier; multiplier *= shape[d].
RECURSIVE LeftToRight(_, _, _, _, _)
LeftToRight(idx, shape, d, offset, multiplier) ==
    IF d > Len(shape) THEN offset
    ELSE LeftToRight(idx, shape, d + 1, offset + idx[d] * multiplier,
                     multiplier * shape[d])

Reverse(s) == [i \in 1 .. Len(s) |-> s[Len(s) + 1 - i]]

\* The lowest-numbered axis (0-based) whose index is not below its extent.
LowestOffendingAxis(idx, shape) ==
    CHOOSE a \in 0 .. (Len(shape) - 1) :
        /\ At(idx, a) >= At(shape, a)
        /\ \A b \in 0 .. (a - 1) : At(idx, b) < At(shape, b)

(***************************************************************************)
(* Properties.                                                             *)
(***************************************************************************)

\* C1: on every valid (shape, indices) pair calculate_nd_row_major returns and
\* its offset is the sum over d of indices[d] * product of shape[d'] for
\* d' > d, which is also what the right-to-left accumulation of main
\* (actual_index) yields.
C1_RowMajorOffset ==
    (called = "calculate_nd_row_major" /\ ValidInput(indices, dimensions)) =>
        /\ result.kind = "returned"
        /\ result.offset = RowMajorSum(indices, dimensions)
        /\ result.offset = actual_index(indices, dimensions)

\* C1 witness: shape (2,2,2), indices (1,0,1), offset 1*4 + 0*2 + 1 = 5.
C1_Witness ==
    /\ called = "calculate_nd_row_major"
    /\ dimensions = <<2, 2, 2>>
    /\ indices = <<1, 0, 1>>
    /\ result.kind = "returned"
    /\ result.offset = 5

\* C2: on every valid (shape, indices) pair calculate_nd_col_major yields the
\* left-to-right accumulation, i.e. the sum over d of indices[d] * product of
\* shape[d'] for d' < d (the first axis varies fastest).
C2_ColMajorOffset ==
    (called = "calculate_nd_col_major" /\ ValidInput(indices, dimensions)) =>
        /\ result.kind = "returned"
        /\ result.offset = LeftToRight(indices, dimensions, 1, 0, 1)
        /\ result.offset = ColMajorSum(indices, dimensions)

\* C3: on every valid (shape, indices) pair, for both N-D routines,
\* 0 <= offset < product of all extents.
C3_OffsetInRange ==
    (called \in NdRoutines /\ ValidInput(indices, dimensions)) =>
        /\ result.kind = "returned"
        /\ 0 <= result.offset
        /\ result.offset < total_elements(dimensions)

\* C3 witness: the last element of a 1x2x2 array under the column-major
\* routine, offset 3 of 4.
C3_Witness ==
    /\ called = "calculate_nd_col_major"
    /\ dimensions = <<1, 2, 2>>
    /\ indices = <<0, 1, 1>>
    /\ result.kind = "returned"
    /\ result.offset = total_elements(dimensions) - 1

\* The offset the routine called last computes for another index vector.
OffsetOf(idx) ==
    IF called = "calculate_nd_row_major"
    THEN nd_row_major_offset(idx, dimensions)
    ELSE nd_col_major_offset(idx, dimensions)

\* C4: for a shape of positive extents and either N-D routine, no other valid
\* index vector gets the offset computed for indices, and the offsets of the
\* valid index vectors are exactly 0 .. (product of extents) - 1.
C4_Bijection ==
    (called \in NdRoutines /\ ValidInput(indices, dimensions)) =>
        /\ result.kind = "returned"
        /\ \A idx \in ValidIndices(dimensions) :
               OffsetOf(idx) = result.offset => idx = indices
        /\ {OffsetOf(idx) : idx \in ValidIndices(dimensions)}
               = 0 .. (total_elements(dimensions) - 1)

\* C4 witness: a 2x2x2 array under the column-major routine, an element in
\* the middle of the 8 offsets.
C4_Witness ==
    /\ called = "calculate_nd_col_major"
    /\ dimensions = <<2, 2, 2>>
    /\ indices = <<0, 1, 1>>
    /\ result.kind = "returned"
    /\ result.offset = 3
    /\ Cardinality(ValidIndices(dimensions)) = 8

\* C5: the column-major offset of (shape, indices) equals the row-major
\* offset of (reverse(shape), reverse(indices)).
C5_RowColSymmetry ==
    (called = "calculate_nd_col_major" /\ ValidInput(indices, dimensions)) =>
        /\ result.kind = "returned"
        /\ result.offset = nd_row_major_offset(Reverse(indices), Reverse(dimensions))

\* C6: when the lengths agree, the extents are positive and some axis has
\* indices[d] >= shape[d], the N-D routines return the error IndexOutOfBounds
\* naming the lowest-numbered offending axis, and no offset.
C6_BoundsCheck ==
    ( /\ called \in NdRoutines
      /\ Len(indices) = Len(dimensions)
      /\ \A d \in 1 .. Len(dimensions) : dimensions[d] > 0
      /\ \E d \in 1 .. Len(dimensions) : indices[d] >= dimensions[d] ) =>
        result = [kind |-> "IndexOutOfBounds",
                  axis |-> LowestOffendingAxis(indices, dimensions)]

\* C7: when the index vector and the shape differ in length, the N-D routines
\* return the error RankMismatch, and no offset.
C7_RankCheck ==
    (called \in NdRoutines /\ Len(indices) # Len(dimensions)) =>
        result = [kind |-> "RankMismatch"]

\* C8: when the shape contains an extent 0, the N-D routines return the error
\* InvalidExtent whatever the index vector of that length is.
C8_ZeroExtent ==
    ( /\ called \in NdRoutines
      /\ Len(indices) = Len(dimensions)
      /\ \E d \in 1 .. Len(dimensions) : dimensions[d] = 0 ) =>
        result = [kind |-> "InvalidExtent"]

\* C9: for valid indices the offsets of calculate_2d_row_major and
\* calculate_3d_row_major are the offsets calculate_nd_row_major computes for
\* the same shape and indices.
C9_RowMajorFixedRank ==
    ( /\ called \in {"calculate_2d_row_major", "calculate_3d_row_major"}
      /\ ValidInput(indices, dimensions) ) =>
        /\ result.kind = "returned"
        /\ result.offset = nd_row_major_offset(indices, dimensions)

\* C9 witness: shape (2,2,2), indices (1,1,0), offset 1*4 + 1*2 + 0 = 6.
C9_Witness ==
    /\ called = "calculate_3d_row_major"
    /\ dimensions = <<2, 2, 2>>
    /\ indices = <<1, 1, 0>>
    /\ result.kind = "returned"
    /\ result.offset = 6

\* C10: for valid indices the offsets of calculate_2d_col_major and
\* calculate_3d_col_major are the offsets calculate_nd_col_major computes for
\* the same shape and indices.
C10_ColMajorFixedRank ==
    ( /\ called \in {"calculate_2d_col_major", "calculate_3d_col_major"}
      /\ ValidInput(indices, dimensions) ) =>
        /\ result.kind = "returned"
        /\ result.offset = nd_col_major_offset(indices, dimensions)

\* C11: with an empty shape and an empty index vector both N-D routines
\* return, and the offset is 0.
C11_RankDegeneration ==
    (called \in NdRoutines /\ indices = <<>> /\ dimensions = <<>>) =>
        /\ result.kind = "returned"
        /\ result.offset = 0

\* C11 witness: the column-major routine called on the empty pair.
C11_Witness ==
    /\ called = "calculate_nd_col_major"
    /\ indices = <<>>
    /\ dimensions = <<>>
    /\ result.kind = "returned"
    /\ result.offset = 0

\* C17: the address returned for an element (an offset inside the buffer, or
\* one past its end) is base + offset * element size and nothing else; for
\* calculate_1d_address the offset is i, for calculate_nd_row_major on a valid
\* input it is the row-major sum.
C17_Address ==
    /\ ( /\ called # "none"
         /\ result.kind = "returned"
         /\ result.offset <= total_elements(dimensions) ) =>
           result.addr = base + result.offset * ElemSize
    /\ (called = "calculate_1d_address" /\ ValidInput(indices, dimensions)) =>
           /\ result.kind = "returned"
           /\ result.addr = base + indices[1] * ElemSize
    /\ (called = "calculate_nd_row_major" /\ ValidInput(indices, dimensions)) =>
           /\ result.kind = "returned"
           /\ result.addr = base + RowMajorSum(indices, dimensions) * ElemSize

\* C17 witness: calculate_1d_address(base, 1) on a two-element array.
C17_Witness ==
    /\ called = "calculate_1d_address"
    /\ dimensions = <<2>>
    /\ indices = <<1>>
    /\ result.kind = "returned"
    /\ result.addr = BaseAddr + ElemSize

Sorted(a) == \A i \in 1 .. Len(a) : \A j \in i .. Len(a) : a[i] <= a[j]

Occurs(a, t) == \E i \in 1 .. Len(a) : a[i] = t

\* The smallest 0-based index at which t occurs in a.
FirstIndex(a, t) ==
    CHOOSE i \in 0 .. (Len(a) - 1) :
        /\ At(a, i) = t
        /\ \A j \in 0 .. (i - 1) : At(a, j) # t

\* floor(log2(n)) for n >= 1.
RECURSIVE FloorLog2(_)
FloorLog2(n) == IF n <= 1 THEN 0 ELSE 1 + FloorLog2(n \div 2)

BinarySearchDone == routine = "binary_search" /\ pc = "done"

\* C12: on a non-empty ascending slice that holds the target, binary_search
\* returns Some(i) with 0 <= i < len and arr[i] = target.
C12_BinarySearchFound ==
    (BinarySearchDone /\ Len(arr) >= 1 /\ Sorted(arr) /\ Occurs(arr, target)) =>
        /\ found.kind = "Some"
        /\ found.index \in 0 .. (Len(arr) - 1)
        /\ At(arr, found.index) = target

\* C12 witness: the target is the last of four elements, two of them equal.
C12_Witness ==
    /\ BinarySearchDone
    /\ arr = <<0, 1, 1, 3>>
    /\ target = 3
    /\ found = SomeIndex(3)

\* C13: on an ascending slice (the empty one included) that does not hold the
\* target, binary_search returns None.
C13_BinarySearchNotFound ==
    (BinarySearchDone /\ Sorted(arr) /\ ~Occurs(arr, target)) =>
        found = NoneFound

\* C14: in every execution of binary_search no usize operation leaves the
\* usize range, the call does not panic, and every arr[mid] has mid < len.
C14_ArithmeticSafety ==
    (routine = "binary_search") =>
        /\ ~overflowed
        /\ found.kind # "panic"
        /\ (pc = "loop" \/ comparisons > 0) => mid < Len(arr)

\* C15: linear_search returns Some(i) for the smallest i with arr[i] = target
\* when the target occurs, and None when it does not, on any slice.
C15_LinearSearch ==
    (routine = "linear_search" /\ pc = "done") =>
        IF Occurs(arr, target)
        THEN found = SomeIndex(FirstIndex(arr, target))
        ELSE found = NoneFound

\* C15 witness: an unsorted slice with the target twice, found at the first.
C15_Witness ==
    /\ routine = "linear_search"
    /\ pc = "done"
    /\ arr = <<2, 1, 0, 1>>
    /\ target = 1
    /\ found = SomeIndex(1)

\* C16: on an ascending slice of length n >= 1 binary_search never evaluates
\* arr[mid].cmp(&target) more than floor(log2(n)) + 1 times, and a call that
\* has entered the loop leaves it.
C16_ComparisonBound ==
    /\ []( (routine = "binary_search" /\ Len(arr) >= 1 /\ Sorted(arr)) =>
               comparisons <= FloorLog2(Len(arr)) + 1 )
    /\ []( (pc = "loop" /\ Sorted(arr)) => <>(pc = "done") )

\* C16 witness: four elements, the target the last: floor(log2(4)) + 1 = 3
\* comparisons are made.
C16_Witness ==
    /\ BinarySearchDone
    /\ arr = <<0, 1, 2, 3>>
    /\ target = 3
    /\ found = SomeIndex(3)
    /\ comparisons = 3

====
